---- MODULE Spec2Model ----
(***************************************************************************)
(* A model of the WAM machine of src/src/lib.rs: heap cells, registers,    *)
(* the environment stack, deref/bind/unify, the instruction set and the    *)
(* executor loop.  Addresses are 0-based as in the source; the sequences   *)
(* that hold them are 1-based, so cell a of the heap is heap[a + 1].       *)
(***************************************************************************)
EXTENDS Integers, Sequences, FiniteSets, TLC

VARIABLES heap, pdl, code_area, code_address, stack, h, x, s, p, cp, e, mode, fail, status,
          steps, last, pc, run_a, script, scenario, query_map, program_map, allocs

vars == <<heap, pdl, code_area, code_address, stack, h, x, s, p, cp, e, mode, fail, status,
          steps, last, pc, run_a, script, scenario, query_map, program_map, allocs>>

\* the caller of the executor: its position, the local a of execute_instructions,
\* the calls it has still to make, and the maps that query and program returned
caller == <<pc, run_a, script, scenario, query_map, program_map>>

(***************************************************************************)
(* Bounds of the model.                                                    *)
(***************************************************************************)
MaxHeap == 5
MaxSteps == 5
UnifyFuel == 24
\* turns of the unify loop over which the order of the argument pairs is observed
MaxTurns == 6

(***************************************************************************)
(* Data model.                                                             *)
(***************************************************************************)
Functor(name, arity) == [name |-> name, arity |-> arity]

NoFunctor == Functor("", 0)

Ref(a) == [tag |-> "Ref", a |-> a, f |-> NoFunctor]

Str(a) == [tag |-> "Str", a |-> a, f |-> NoFunctor]

Func(f) == [tag |-> "Func", a |-> 0, f |-> f]

\* Option<Cell>::None
None == [tag |-> "None", a |-> 0, f |-> NoFunctor]

\* the result of an expression that panics (index out of bounds, unwrap of None)
Panicked == [tag |-> "Panic", a |-> 0, f |-> NoFunctor]

IsCell(c) == c.tag \in {"Ref", "Str", "Func"}

is_ref(c) == c.tag = "Ref"

X(i) == [rk |-> "X", i |-> i]

Y(i) == [rk |-> "Y", i |-> i]

HeapAddr(a) == [st |-> "Heap", a |-> a, r |-> X(0)]

Register(r) == [st |-> "Reg", a |-> 0, r |-> r]

\* a store address that stands for "the computation panicked" / "never returned"
StorePanic == [st |-> "Panic", a |-> 0, r |-> X(0)]

StoreLoop == [st |-> "Loop", a |-> 0, r |-> X(0)]

IsStore(d) == d.st \in {"Heap", "Reg"}

FrameCode(a) == [fk |-> "Code", a |-> a, c |-> None]

FrameCell(c) == [fk |-> "Cell", a |-> 0, c |-> c]

NoFrame == [fk |-> "None", a |-> 0, c |-> None]

Instr(op, f, r1, r2, n) == [op |-> op, f |-> f, r1 |-> r1, r2 |-> r2, n |-> n]

PutStructure(f, xi) == Instr("PutStructure", f, xi, X(0), 0)

GetStructure(f, xi) == Instr("GetStructure", f, xi, X(0), 0)

SetVariable(xi) == Instr("SetVariable", NoFunctor, xi, X(0), 0)

UnifyVariable(xi) == Instr("UnifyVariable", NoFunctor, xi, X(0), 0)

SetValue(xi) == Instr("SetValue", NoFunctor, xi, X(0), 0)

UnifyValue(xi) == Instr("UnifyValue", NoFunctor, xi, X(0), 0)

PutVariable(xn, ai) == Instr("PutVariable", NoFunctor, xn, ai, 0)

PutValue(xn, ai) == Instr("PutValue", NoFunctor, xn, ai, 0)

GetValue(xn, ai) == Instr("GetValue", NoFunctor, xn, ai, 0)

GetVariable(xn, ai) == Instr("GetVariable", NoFunctor, xn, ai, 0)

Allocate(n) == Instr("Allocate", NoFunctor, X(0), X(0), n)

Deallocate == Instr("Deallocate", NoFunctor, X(0), X(0), 0)

Call(f) == Instr("Call", f, X(0), X(0), 0)

Proceed == Instr("Proceed", NoFunctor, X(0), X(0), 0)

(***************************************************************************)
(* The machine as one value, so that the operations are functions on it.   *)
(***************************************************************************)
Machine == [heap |-> heap, pdl |-> pdl, code_area |-> code_area, code_address |-> code_address,
            stack |-> stack, h |-> h, x |-> x, s |-> s, p |-> p, cp |-> cp, e |-> e,
            mode |-> mode, fail |-> fail, status |-> status]

\* Machine::new
new == [heap |-> <<>>, pdl |-> <<>>, code_area |-> <<>>, code_address |-> <<>>,
        stack |-> <<>>, h |-> 0, x |-> <<>>, s |-> 0, p |-> 0, cp |-> 0, e |-> 0,
        mode |-> "Read", fail |-> FALSE, status |-> "ok"]

\* a panic unwinds out of the operation: the machine is not used again
Panic(m) == [m EXCEPT !.status = "panic"]

\* an operation whose loop never ends
Hang(m) == [m EXCEPT !.status = "hang"]

\* Vec::resize(n, None)
Resize(v, n) == [i \in 1..n |-> IF i <= Len(v) THEN v[i] ELSE None]

ResizeStack(v, n) == [i \in 1..n |-> IF i <= Len(v) THEN v[i] ELSE NoFrame]

HeapAt(m, a) == IF a < Len(m.heap) THEN m.heap[a + 1] ELSE Panicked

push_heap(m, cell) == [m EXCEPT !.heap = Append(@, cell)]

\* an inc_h that advances H by one cell whatever was pushed
inc_h_by_one(m, value) == IF m.status # "ok" THEN m ELSE [m EXCEPT !.h = @ + 1]

inc_h(m, value) == IF m.status # "ok" THEN m ELSE [m EXCEPT !.h = @ + value]

get_x(m, xi) == IF xi >= 1 /\ xi <= Len(m.x) THEN m.x[xi] ELSE Panicked

get_y(m, yi) ==
    LET idx == m.e + 3 + yi
    IN  IF idx < Len(m.stack) /\ m.stack[idx + 1].fk = "Cell" THEN m.stack[idx + 1].c ELSE Panicked

get_register(m, register) ==
    IF register.rk = "X" THEN get_x(m, register.i) ELSE get_y(m, register.i)

insert_x(m, xi, cell) ==
    LET grown == IF xi > Len(m.x) THEN Resize(m.x, xi) ELSE m.x
    IN  IF xi < 1 THEN Panic(m) ELSE [m EXCEPT !.x = [grown EXCEPT ![xi] = cell]]

insert_y(m, yi, cell) ==
    LET idx == m.e + 3 + yi
    IN  IF idx < Len(m.stack)
        THEN [m EXCEPT !.stack = [@ EXCEPT ![idx + 1] = FrameCell(cell)]]
        ELSE Panic(m)

insert_register(m, register, cell) ==
    IF m.status # "ok" THEN m
    ELSE IF register.rk = "X" THEN insert_x(m, register.i, cell)
    ELSE insert_y(m, register.i, cell)

(***************************************************************************)
(* deref, bind, unify.                                                     *)
(***************************************************************************)
\* a deref that makes one hop at most
derefOneHop(m, address, n) ==
    LET cell == IF address.st = "Heap" THEN HeapAt(m, address.a) ELSE get_register(m, address.r)
        a == IF address.st = "Heap" THEN address.a ELSE address.r.i
    IN  IF ~IsCell(cell) THEN StorePanic
        ELSE IF cell.tag = "Ref" /\ cell.a # a THEN HeapAddr(cell.a)
        ELSE address

RECURSIVE derefLoop(_, _, _)
derefLoop(m, address, n) ==
    LET cell == IF address.st = "Heap" THEN HeapAt(m, address.a) ELSE get_register(m, address.r)
        a == IF address.st = "Heap" THEN address.a ELSE address.r.i
    IN  IF ~IsCell(cell) THEN StorePanic
        ELSE IF cell.tag = "Ref" /\ cell.a # a
             THEN IF n = 0 THEN StoreLoop ELSE derefLoop(m, HeapAddr(cell.a), n - 1)
             ELSE address

\* a deref that follows every Ref, without the test that stops at an unbound one
deref_unguarded(m, address) ==
    LET RECURSIVE Follow(_, _)
        Follow(ad, n) ==
            LET cell == IF ad.st = "Heap" THEN HeapAt(m, ad.a) ELSE get_register(m, ad.r)
            IN  IF ~IsCell(cell) THEN StorePanic
                ELSE IF cell.tag = "Ref"
                     THEN IF n = 0 THEN StoreLoop ELSE Follow(HeapAddr(cell.a), n - 1)
                     ELSE ad
    IN  Follow(address, Len(m.heap) + 1)

\* a Ref chain that is followed for more hops than the heap has cells is a cycle
deref(m, address) == derefLoop(m, address, Len(m.heap) + 1)

get_store_cell(m, address) ==
    IF address.st = "Heap" THEN HeapAt(m, address.a) ELSE get_register(m, address.r)

\* Cell::address().unwrap() panics on a Func cell
HasAddress(c) == c.tag \in {"Ref", "Str"}

\* a bind that appends the bound value to the heap instead of overwriting a cell
bind_pushing(m, a1, a2) ==
    LET c2 == get_store_cell(m, a2)
    IN  IF IsCell(c2) THEN push_heap(m, c2) ELSE Panic(m)

\* a bind that does not test which of the two cells is the unbound one: the cell of
\* a2 is always the one overwritten
bind_unordered(m, a1, a2) ==
    LET c1 == get_store_cell(m, a1)
        c2 == get_store_cell(m, a2)
    IN  IF ~(HasAddress(c1) /\ HasAddress(c2)) THEN Panic(m)
        ELSE IF c2.a < Len(m.heap) THEN [m EXCEPT !.heap[c2.a + 1] = c1] ELSE Panic(m)

\* a bind that, of two Refs, makes the older cell point to the younger one
bind_to_younger(m, a1, a2) ==
    LET c1 == get_store_cell(m, a1)
        c2 == get_store_cell(m, a2)
    IN  IF ~(HasAddress(c1) /\ HasAddress(c2)) THEN Panic(m)
        ELSE IF is_ref(c1) /\ (~is_ref(c2) \/ c2.a > c1.a)
             THEN IF c1.a < Len(m.heap) THEN [m EXCEPT !.heap[c1.a + 1] = c2] ELSE Panic(m)
             ELSE IF c2.a < Len(m.heap) THEN [m EXCEPT !.heap[c2.a + 1] = c1] ELSE Panic(m)

bind(m, a1, a2) ==
    LET c1 == get_store_cell(m, a1)
        c2 == get_store_cell(m, a2)
    IN  IF ~(HasAddress(c1) /\ HasAddress(c2)) THEN Panic(m)
        ELSE IF is_ref(c1) /\ (~is_ref(c2) \/ c2.a < c1.a)
             THEN IF c1.a < Len(m.heap) THEN [m EXCEPT !.heap[c1.a + 1] = c2] ELSE Panic(m)
             ELSE IF c2.a < Len(m.heap) THEN [m EXCEPT !.heap[c2.a + 1] = c1] ELSE Panic(m)

\* get_functor: only reached with Str cells (a Func cell has panicked before)
get_functor(m, cell) ==
    IF cell.tag = "Str" /\ HeapAt(m, cell.a).tag = "Func" THEN HeapAt(m, cell.a).f
    ELSE IF cell.tag = "Func" THEN cell.f
    ELSE NoFunctor

HasFunctor(m, cell) ==
    \/ cell.tag = "Func"
    \/ cell.tag = "Str" /\ HeapAt(m, cell.a).tag = "Func"

RECURSIVE ArgPairs_descending(_, _, _, _)
\* the pairs pushed from the last argument down to the first
ArgPairs_descending(v1, v2, from, n1) ==
    IF from > n1 THEN <<>>
    ELSE <<HeapAddr(v1 + n1), HeapAddr(v2 + n1)>> \o ArgPairs_descending(v1, v2, from, n1 - 1)

RECURSIVE ArgPairs(_, _, _, _)
\* the pushes of the for loop: (v1+i, v2+i) for i = from..n1, in this order
ArgPairs(v1, v2, from, n1) ==
    IF from > n1 THEN <<>>
    ELSE <<HeapAddr(v1 + from), HeapAddr(v2 + from)>> \o ArgPairs(v1, v2, from + 1, n1)

RECURSIVE unifyLoop(_, _)
unifyLoop(m, n) ==
    IF m.status # "ok" \/ m.pdl = <<>> \/ m.fail THEN m
    ELSE IF n = 0 \/ Len(m.pdl) < 2 THEN (IF n = 0 THEN Hang(m) ELSE Panic(m))
    ELSE LET k == Len(m.pdl)
             a1 == m.pdl[k]
             a2 == m.pdl[k - 1]
             m1 == [m EXCEPT !.pdl = SubSeq(@, 1, k - 2)]
             d1 == deref(m1, a1)
             d2 == deref(m1, a2)
             c1 == get_store_cell(m1, d1)
             c2 == get_store_cell(m1, d2)
         IN  IF d1.st = "Panic" \/ d2.st = "Panic" THEN Panic(m1)
             ELSE IF d1.st = "Loop" \/ d2.st = "Loop" THEN Hang(m1)
             ELSE IF d1 = d2 THEN unifyLoop(m1, n - 1)
             ELSE IF is_ref(c1) \/ is_ref(c2) THEN unifyLoop(bind(m1, d1, d2), n - 1)
             ELSE IF ~(HasAddress(c1) /\ HasAddress(c2)) THEN Panic(m1)
             ELSE IF ~(HasFunctor(m1, c1) /\ HasFunctor(m1, c2)) THEN Panic(m1)
             ELSE IF get_functor(m1, c1) = get_functor(m1, c2)
                  THEN unifyLoop([m1 EXCEPT !.pdl = @ \o ArgPairs(c1.a, c2.a, 1, get_functor(m1, c1).arity)],
                                 n - 1)
                  ELSE [m1 EXCEPT !.fail = TRUE]

unify(m, a1, a2) ==
    unifyLoop([m EXCEPT !.pdl = @ \o <<a1, a2>>, !.fail = FALSE], UnifyFuel)

(***************************************************************************)
(* The instructions.                                                       *)
(***************************************************************************)
put_structure(m, f, xi) ==
    LET hh == m.h
        m1 == push_heap(push_heap(m, Str(hh + 1)), Func(f))
    IN  inc_h(insert_register(m1, xi, Str(hh + 1)), 2)

put_variable(m, xn, ai) ==
    LET hh == m.h
        m1 == push_heap(m, Ref(hh))
    IN  inc_h(insert_register(insert_register(m1, xn, Ref(hh)), ai, Ref(hh)), 1)

put_value(m, xn, ai) ==
    LET c == get_register(m, xn)
    IN  IF IsCell(c) THEN insert_register(m, ai, c) ELSE Panic(m)

set_variable(m, xi) ==
    LET hh == m.h
    IN  inc_h(insert_register(push_heap(m, Ref(hh)), xi, Ref(hh)), 1)

\* a set_value that writes the cell over the last heap cell instead of appending it
set_value_overwriting(m, xi) ==
    LET c == get_register(m, xi)
    IN  IF ~IsCell(c) THEN Panic(m)
        ELSE IF m.heap = <<>> THEN inc_h(push_heap(m, c), 1)
        ELSE [m EXCEPT !.heap[Len(m.heap)] = c]

set_value(m, xi) ==
    LET c == get_register(m, xi)
    IN  IF IsCell(c) THEN inc_h(push_heap(m, c), 1) ELSE Panic(m)

get_variable(m, xn, ai) ==
    LET c == get_register(m, ai)
    IN  IF IsCell(c) THEN insert_register(m, xn, c) ELSE Panic(m)

get_value(m, xn, ai) == unify(m, Register(xn), Register(ai))

\* a get_structure that has pushed the two cells before it looks at the cell of xi
\* and does not take them back when the functors differ
get_structure_pushing_first(m, f, xi) ==
    LET d == deref(m, Register(xi))
        cell == IF d.st = "Heap" THEN HeapAt(m, d.a) ELSE get_register(m, xi)
        address == IF d.st = "Heap" THEN d.a ELSE d.r.i
        hh == m.h
        pushed == push_heap(push_heap(m, Str(hh + 1)), Func(f))
        bound == bind(pushed, HeapAddr(address), HeapAddr(hh))
    IN  IF d.st = "Panic" \/ ~IsCell(cell) THEN Panic(m)
        ELSE IF d.st = "Loop" THEN Hang(m)
        ELSE IF cell.tag = "Ref"
             THEN IF bound.status # "ok" THEN bound ELSE [inc_h(bound, 2) EXCEPT !.mode = "Write"]
        ELSE IF cell.tag = "Str"
             THEN IF HeapAt(m, cell.a).tag # "Func" THEN Panic(m)
                  ELSE IF HeapAt(m, cell.a).f = f
                       THEN [m EXCEPT !.s = cell.a + 1, !.mode = "Read"]
                       ELSE [inc_h(pushed, 2) EXCEPT !.fail = TRUE]
        ELSE [inc_h(pushed, 2) EXCEPT !.fail = TRUE]

get_structure(m, f, xi) ==
    LET d == deref(m, Register(xi))
        cell == IF d.st = "Heap" THEN HeapAt(m, d.a) ELSE get_register(m, xi)
        address == IF d.st = "Heap" THEN d.a ELSE d.r.i
        hh == m.h
        pushed == push_heap(push_heap(m, Str(hh + 1)), Func(f))
        bound == bind(pushed, HeapAddr(address), HeapAddr(hh))
    IN  IF d.st = "Panic" \/ ~IsCell(cell) THEN Panic(m)
        ELSE IF d.st = "Loop" THEN Hang(m)
        ELSE IF cell.tag = "Ref"
             THEN IF bound.status # "ok" THEN bound ELSE [inc_h(bound, 2) EXCEPT !.mode = "Write"]
        ELSE IF cell.tag = "Str"
             THEN IF HeapAt(m, cell.a).tag # "Func" THEN Panic(m)
                  ELSE IF HeapAt(m, cell.a).f = f
                       THEN [m EXCEPT !.s = cell.a + 1, !.mode = "Read"]
                       ELSE [m EXCEPT !.fail = TRUE]
        ELSE [m EXCEPT !.fail = TRUE]

inc_s(m, value) == IF m.status # "ok" THEN m ELSE [m EXCEPT !.s = @ + value]

\* a unify_variable that leaves S where it was
unify_variable_keeping_s(m, xi) ==
    LET hh == m.h
        read == IF IsCell(HeapAt(m, m.s)) THEN insert_register(m, xi, HeapAt(m, m.s)) ELSE Panic(m)
        write == inc_h(insert_register(push_heap(m, Ref(hh)), xi, Ref(hh)), 1)
    IN  IF m.mode = "Read" THEN read ELSE write

unify_variable(m, xi) ==
    LET hh == m.h
        read == IF IsCell(HeapAt(m, m.s)) THEN insert_register(m, xi, HeapAt(m, m.s)) ELSE Panic(m)
        write == inc_h(insert_register(push_heap(m, Ref(hh)), xi, Ref(hh)), 1)
    IN  inc_s(IF m.mode = "Read" THEN read ELSE write, 1)

unify_value(m, xi) ==
    LET c == get_register(m, xi)
        read == unify(m, Register(xi), HeapAddr(m.s))
        write == IF IsCell(c) THEN inc_h(push_heap(m, c), 1) ELSE Panic(m)
    IN  inc_s(IF m.mode = "Read" THEN read ELSE write, 1)

(***************************************************************************)
(* Environments and control.                                               *)
(***************************************************************************)
allocate(m, n) ==
    LET e0 == m.e
        resized == ResizeStack(m.stack, e0 + n + 5)
        sized == [resized EXCEPT ![e0 + 2 + 1] = FrameCode(n)]
        temp == sized[e0 + 2 + 1].a
        new_e == e0 + temp + 3
        framed == [sized EXCEPT ![new_e + 1] = FrameCode(e0), ![new_e + 1 + 1] = FrameCode(m.cp)]
    IN  [m EXCEPT !.stack = framed, !.e = new_e, !.p = @ + 1]

\* stack[i], where reading outside the vector panics
FrameAt(st, i) == IF i >= 0 /\ i < Len(st) THEN st[i + 1] ELSE NoFrame

\* a deallocate that reads the two saved values from each other's slot
deallocate_swapped(m) ==
    LET new_p == FrameAt(m.stack, m.e)
        new_e == FrameAt(m.stack, m.e + 1)
    IN  IF new_p.fk = "Code" /\ new_e.fk = "Code"
        THEN [m EXCEPT !.p = new_p.a, !.e = new_e.a]
        ELSE Panic(m)

deallocate(m) ==
    LET new_p == FrameAt(m.stack, m.e + 1)
        new_e == FrameAt(m.stack, m.e)
    IN  IF new_p.fk = "Code" /\ new_e.fk = "Code"
        THEN [m EXCEPT !.p = new_p.a, !.e = new_e.a]
        ELSE Panic(m)

\* HashMap::get(fact).unwrap()
HasCodeAddress(m, fact) == fact \in DOMAIN m.code_address

get_code_address(m, fact) == m.code_address[fact]

\* a call that reports an unknown functor as a unification failure
call_failing(m, f) ==
    IF HasCodeAddress(m, f)
    THEN [m EXCEPT !.cp = m.p + 1, !.p = get_code_address(m, f)]
    ELSE [m EXCEPT !.fail = TRUE]

call(m, f) ==
    IF HasCodeAddress(m, f)
    THEN [m EXCEPT !.cp = m.p + 1, !.p = get_code_address(m, f)]
    ELSE Panic(m)

\* a proceed that also clears CP
proceed_clearing_cp(m) == [m EXCEPT !.p = m.cp, !.cp = 0]

proceed(m) == [m EXCEPT !.p = m.cp]

execute(m, instruction) ==
    CASE instruction.op = "PutStructure" -> put_structure(m, instruction.f, instruction.r1)
      [] instruction.op = "GetStructure" -> get_structure(m, instruction.f, instruction.r1)
      [] instruction.op = "SetValue" -> set_value(m, instruction.r1)
      [] instruction.op = "UnifyValue" -> unify_value(m, instruction.r1)
      [] instruction.op = "SetVariable" -> set_variable(m, instruction.r1)
      [] instruction.op = "UnifyVariable" -> unify_variable(m, instruction.r1)
      [] instruction.op = "PutVariable" -> put_variable(m, instruction.r1, instruction.r2)
      [] instruction.op = "PutValue" -> put_value(m, instruction.r1, instruction.r2)
      [] instruction.op = "GetValue" -> get_value(m, instruction.r1, instruction.r2)
      [] instruction.op = "GetVariable" -> get_variable(m, instruction.r1, instruction.r2)
      [] instruction.op = "Allocate" -> allocate(m, instruction.n)
      [] instruction.op = "Deallocate" -> deallocate(m)
      [] instruction.op = "Call" -> call(m, instruction.f)
      [] instruction.op = "Proceed" -> proceed(m)

\* push_code_address, then push_instruction for each instruction
push_instructions(m, fact, instructions) ==
    [m EXCEPT !.code_address = (fact :> Len(m.code_area)) @@ @,
              !.code_area = @ \o instructions]

(***************************************************************************)
(* The compiler.  A term is a variable, an atom or a compound.  The        *)
(* compiler's state c is x (next register), m (TermMap), seen (TermSet)    *)
(* and the two instruction lists.                                          *)
(***************************************************************************)
Var(name) == [k |-> "Var", name |-> name, args |-> <<>>]

Compound(name, args) == [k |-> "Compound", name |-> name, args |-> args]

Atom(name) == [k |-> "Atom", name |-> name, args |-> <<>>]

\* structuralize().unwrap(): an atom becomes the compound of arity 0 of its name
structuralize(term) == IF term.k = "Atom" THEN Compound(term.name, <<>>) ELSE term

\* the key of a term in a TermMap or TermSet: an atom and the compound that
\* structuralize makes of it are the same key
TermKey(term) == structuralize(term)

FunctorOf(compound) == Functor(compound.name, Len(compound.args))

\* a register assignment that does not look whether the term has one
AssignRegister_always(c, t) == [c EXCEPT !.m = (TermKey(t) :> X(c.x)) @@ @, !.x = @ + 1]

\* if !m.contains_key(t) { m.insert(t, X(*x)); *x += 1 }
AssignRegister(c, t) ==
    IF TermKey(t) \in DOMAIN c.m THEN c
    ELSE [c EXCEPT !.m = (TermKey(t) :> X(c.x)) @@ @, !.x = @ + 1]

RECURSIVE AssignArguments(_, _, _)
AssignArguments(c, args, i) ==
    IF i > Len(args) THEN c ELSE AssignArguments(AssignRegister(c, args[i]), args, i + 1)

RECURSIVE allocate_query_registers(_, _)
allocate_query_registers(compound, c0) ==
    LET args == compound.args
        c1 == AssignArguments(AssignRegister(c0, compound), args, 1)
        RECURSIVE Nested(_, _)
        Nested(c, i) ==
            IF i > Len(args) THEN c
            ELSE Nested(IF args[i].k = "Compound" THEN allocate_query_registers(args[i], c) ELSE c,
                        i + 1)
        c2 == Nested(c1, 1)
        c3 == [c2 EXCEPT !.ins = Append(@, PutStructure(FunctorOf(compound), c2.m[TermKey(compound)])),
                         !.seen = @ \cup {TermKey(compound)}]
        RECURSIVE Sets(_, _)
        Sets(c, i) ==
            IF i > Len(args) THEN c
            ELSE Sets(IF TermKey(args[i]) \notin c.seen
                      THEN [c EXCEPT !.ins = Append(@, SetVariable(c.m[TermKey(args[i])])),
                                     !.seen = @ \cup {TermKey(args[i])}]
                      ELSE [c EXCEPT !.ins = Append(@, SetValue(c.m[TermKey(args[i])]))],
                      i + 1)
    IN  Sets(c3, 1)

RECURSIVE allocate_program_registers(_, _, _)
allocate_program_registers(root, compound, c0) ==
    LET args == compound.args
        c1 == AssignArguments(AssignRegister(c0, compound), args, 1)
        Push(c, instruction) ==
            IF root THEN [c EXCEPT !.arg_ins = Append(@, instruction)]
            ELSE [c EXCEPT !.ins = Append(@, instruction)]
        c2 == [Push(c1, GetStructure(FunctorOf(compound), c1.m[TermKey(compound)]))
                  EXCEPT !.seen = @ \cup {TermKey(compound)}]
        RECURSIVE Unifies(_, _)
        Unifies(c, i) ==
            IF i > Len(args) THEN c
            ELSE Unifies(IF TermKey(args[i]) \notin c.seen
                         THEN [Push(c, UnifyVariable(c.m[TermKey(args[i])])) EXCEPT !.seen = @ \cup {TermKey(args[i])}]
                         ELSE Push(c, UnifyValue(c.m[TermKey(args[i])])),
                         i + 1)
        c3 == Unifies(c2, 1)
        RECURSIVE Nested(_, _)
        Nested(c, i) ==
            IF i > Len(args) THEN c
            ELSE Nested(IF args[i].k = "Compound"
                        THEN allocate_program_registers(FALSE, args[i], c) ELSE c,
                        i + 1)
    IN  Nested(c3, 1)

\* the compiler's state at the start of a compilation with map m and set seen
Compiling(m, seen) == [x |-> 0, m |-> m, seen |-> seen, ins |-> <<>>, arg_ins |-> <<>>]

\* the state after compile_query(term, m, seen); the instructions are its ins
compile_query(term, m, seen) ==
    LET args == structuralize(term).args
        arity == Len(args)
        RECURSIVE Arguments(_, _)
        Arguments(c, a) ==
            IF a > arity THEN c
            ELSE LET arg == args[a]
                     cx == [c EXCEPT !.x = a + arity]
                 IN  Arguments(
                       IF arg.k = "Var"
                       THEN IF TermKey(arg) \notin cx.seen
                            THEN IF TermKey(arg) \in DOMAIN cx.m
                                 THEN [cx EXCEPT !.ins = Append(@, PutVariable(cx.m[TermKey(arg)], X(a))),
                                                 !.seen = @ \cup {TermKey(arg)}]
                                 ELSE [cx EXCEPT !.ins = Append(@, PutVariable(X(cx.x), X(a))),
                                                 !.m = (TermKey(arg) :> X(cx.x)) @@ @,
                                                 !.seen = @ \cup {TermKey(arg)}]
                            ELSE [cx EXCEPT !.ins = Append(@, PutValue(cx.m[TermKey(arg)], X(a)))]
                       ELSE allocate_query_registers(structuralize(arg),
                                [cx EXCEPT !.m = (TermKey(arg) :> X(a)) @@ @, !.seen = @ \cup {TermKey(arg)}]),
                       a + 1)
        c1 == Arguments(Compiling(m, seen), 1)
    IN  [c1 EXCEPT !.ins = Append(@, Call(FunctorOf(term)))]

\* the state after compile_fact(term, m, seen); the instructions are its ins
compile_fact(term, m, seen) ==
    LET args == structuralize(term).args
        arity == Len(args)
        RECURSIVE Arguments(_, _)
        Arguments(c, a) ==
            IF a > arity THEN c
            ELSE LET arg == args[a]
                     cx == [c EXCEPT !.x = a + arity]
                 IN  Arguments(
                       IF arg.k = "Var"
                       THEN IF TermKey(arg) \notin cx.seen
                            THEN IF TermKey(arg) \in DOMAIN cx.m
                                 THEN [cx EXCEPT !.arg_ins = Append(@, GetVariable(cx.m[TermKey(arg)], X(a))),
                                                 !.seen = @ \cup {TermKey(arg)}]
                                 ELSE [cx EXCEPT !.arg_ins = Append(@, GetVariable(X(cx.x), X(a))),
                                                 !.m = (TermKey(arg) :> X(cx.x)) @@ @,
                                                 !.seen = @ \cup {TermKey(arg)}]
                            ELSE [cx EXCEPT !.arg_ins = Append(@, GetValue(cx.m[TermKey(arg)], X(a)))]
                       ELSE allocate_program_registers(TRUE, structuralize(arg),
                                [cx EXCEPT !.m = (TermKey(arg) :> X(a)) @@ @, !.seen = @ \cup {TermKey(arg)}]),
                       a + 1)
        c1 == Arguments(Compiling(m, seen), 1)
    IN  [c1 EXCEPT !.ins = c1.arg_ins \o Append(c1.ins, Proceed), !.arg_ins = <<>>]

\* the terms of the compilation tests
TermFig29 ==
    Compound("p", <<Var("Z"), Compound("h", <<Var("Z"), Var("W")>>), Compound("f", <<Var("W")>>)>>)

TermFig210 ==
    Compound("p", <<Compound("f", <<Var("X")>>),
                    Compound("h", <<Var("Y"), Compound("f", <<Atom("a")>>)>>),
                    Var("Y")>>)

\* a rule: the head is a compound, the body a sequence of compounds
Rule(head, body) == [head |-> head, body |-> body]

RECURSIVE find_variables(_)
\* the variables pushed for term, in the order and as often as they occur; only
\* compound arguments of arity > 0 are searched
find_variables(term) ==
    LET RECURSIVE Arguments(_)
        Arguments(i) ==
            IF i > Len(term.args) THEN <<>>
            ELSE (IF term.args[i].k = "Var" THEN <<term.args[i]>>
                  ELSE IF Len(term.args[i].args) > 0 THEN find_variables(term.args[i])
                  ELSE <<>>) \o Arguments(i + 1)
    IN  IF term.k = "Compound" THEN Arguments(1) ELSE <<>>

RECURSIVE find_variable_positions(_)
\* all_vars without the repetitions, in the order of the first occurrences
find_variable_positions(all_vars) ==
    IF all_vars = <<>> THEN <<>>
    ELSE LET front == find_variable_positions(SubSeq(all_vars, 1, Len(all_vars) - 1))
             var == all_vars[Len(all_vars)]
         IN  IF \E i \in 1..Len(front) : front[i] = var THEN front ELSE Append(front, var)

\* the y_map of a rule with a body that is not empty (body[0] panics on an empty one)
collect_permanent_variables(rule) ==
    LET RECURSIVE Found(_, _)
        Found(from, to) ==
            IF from > to THEN <<>> ELSE find_variables(rule.body[from]) \o Found(from + 1, to)
        first == find_variables(rule.head) \o find_variables(rule.body[1])
        later == Found(2, Len(rule.body))
        counts(v) == (IF \E i \in 1..Len(first) : first[i] = v THEN 1 ELSE 0)
                        + Cardinality({i \in 1..Len(later) : later[i] = v})
        all_vars == find_variables(rule.head) \o Found(1, Len(rule.body))
        perm_vars == find_variable_positions(all_vars)
        temp == SelectSeq(perm_vars, LAMBDA v : counts(v) > 1)
    IN  [v \in {temp[i] : i \in 1..Len(temp)} |->
            Y(CHOOSE i \in 1..Len(temp) : temp[i] = v)]

\* a rule compiler that leaves the Proceed of the head in place
compile_rule_keeping_proceed(rule, m, seen) ==
    LET y_map == collect_permanent_variables(rule)
        head == compile_fact(rule.head, y_map @@ m, seen)
        RECURSIVE Body(_, _)
        Body(c, i) ==
            IF i > Len(rule.body) THEN c
            ELSE LET goal == compile_query(rule.body[i], c.m, c.seen)
                 IN  Body([goal EXCEPT !.ins = c.ins \o goal.ins], i + 1)
        body == Body([head EXCEPT !.ins = <<>>], 1)
    IN  [body EXCEPT !.ins = <<Allocate(Cardinality(DOMAIN y_map))>> \o head.ins
                                 \o body.ins \o <<Deallocate>>]

\* the state after compile_rule(rule, m, seen); the instructions are its ins
compile_rule(rule, m, seen) ==
    LET y_map == collect_permanent_variables(rule)
        n == Cardinality(DOMAIN y_map)
        head == compile_fact(rule.head, y_map @@ m, seen)
        head_slice == SubSeq(head.ins, 1, Len(head.ins) - 1)
        RECURSIVE Body(_, _)
        Body(c, i) ==
            IF i > Len(rule.body) THEN c
            ELSE LET goal == compile_query(rule.body[i], c.m, c.seen)
                 IN  Body([goal EXCEPT !.ins = c.ins \o goal.ins], i + 1)
        body == Body([head EXCEPT !.ins = <<>>], 1)
    IN  [body EXCEPT !.ins = <<Allocate(n)>> \o head_slice \o body.ins \o <<Deallocate>>]

\* the rule of the test of exercise 3.1: p(X, Y) :- q(X, Z), r(Z, Y)
RuleExercise31 ==
    Rule(Compound("p", <<Var("X"), Var("Y")>>),
         <<Compound("q", <<Var("X"), Var("Z")>>), Compound("r", <<Var("Z"), Var("Y")>>)>>)

(***************************************************************************)
(* Specification Spec: the instructions of the heap (L0/L1 of the WAM)     *)
(* called one after the other on a fresh machine, as the unit tests do,    *)
(* with every choice of functor and X register.  steps counts the calls   *)
(* and last is the instruction of the latest one.                          *)
(***************************************************************************)
Functors == {Functor("a", 0), Functor("f", 1)}

XRegs == {X(1), X(2)}

\* the machine becomes m
SetMachine(m) ==
    /\ heap' = m.heap
    /\ pdl' = m.pdl
    /\ code_area' = m.code_area
    /\ code_address' = m.code_address
    /\ stack' = m.stack
    /\ h' = m.h
    /\ x' = m.x
    /\ s' = m.s
    /\ p' = m.p
    /\ cp' = m.cp
    /\ e' = m.e
    /\ mode' = m.mode
    /\ fail' = m.fail
    /\ status' = m.status

\* allocs records, for every Allocate whose Deallocate has not been executed yet,
\* the E, the CP and the stack the machine had when the Allocate was executed
Recorded(i) ==
    IF i.op = "Allocate" THEN Append(allocs, [e |-> e, cp |-> cp, stack |-> stack])
    ELSE IF i.op = "Deallocate" /\ allocs # <<>> THEN SubSeq(allocs, 1, Len(allocs) - 1)
    ELSE allocs

\* the step of the caller: instruction i has been executed and left machine m
SetM(m, i) ==
    /\ SetMachine(m)
    /\ steps' = steps + 1
    /\ last' = i
    /\ allocs' = Recorded(i)
    /\ UNCHANGED caller

\* the machine is usable, and the heap after the instruction is within the bound
Within(m) == status = "ok" /\ steps < MaxSteps /\ Len(m.heap) <= MaxHeap

\* the variables are the fields of machine m
IsM(m) ==
    /\ heap = m.heap
    /\ pdl = m.pdl
    /\ code_area = m.code_area
    /\ code_address = m.code_address
    /\ stack = m.stack
    /\ h = m.h
    /\ x = m.x
    /\ s = m.s
    /\ p = m.p
    /\ cp = m.cp
    /\ e = m.e
    /\ mode = m.mode
    /\ fail = m.fail
    /\ status = m.status

NoInstr == Instr("None", NoFunctor, X(0), X(0), 0)

\* no executor run: the instructions are called directly
NoCaller ==
    /\ pc = "idle"
    /\ run_a = 0
    /\ script = <<>>
    /\ scenario = [kind |-> "direct", q |-> Atom("none"), t |-> Atom("none")]
    /\ query_map = {}
    /\ program_map = {}
    /\ allocs = <<>>

Init == IsM(new) /\ steps = 0 /\ last = NoInstr /\ NoCaller

DoPutStructure ==
    \E f \in Functors, xi \in XRegs :
        /\ Within(put_structure(Machine, f, xi))
        /\ SetM(put_structure(Machine, f, xi), PutStructure(f, xi))

DoSetVariable ==
    \E xi \in XRegs :
        /\ Within(set_variable(Machine, xi))
        /\ SetM(set_variable(Machine, xi), SetVariable(xi))

DoSetValue ==
    \E xi \in XRegs :
        /\ Within(set_value(Machine, xi))
        /\ SetM(set_value(Machine, xi), SetValue(xi))

DoPutVariable ==
    \E xn \in XRegs, ai \in XRegs :
        /\ Within(put_variable(Machine, xn, ai))
        /\ SetM(put_variable(Machine, xn, ai), PutVariable(xn, ai))

DoPutValue ==
    \E xn \in XRegs, ai \in XRegs :
        /\ Within(put_value(Machine, xn, ai))
        /\ SetM(put_value(Machine, xn, ai), PutValue(xn, ai))

DoGetVariable ==
    \E xn \in XRegs, ai \in XRegs :
        /\ Within(get_variable(Machine, xn, ai))
        /\ SetM(get_variable(Machine, xn, ai), GetVariable(xn, ai))

DoGetValue ==
    \E xn \in XRegs, ai \in XRegs :
        /\ Within(get_value(Machine, xn, ai))
        /\ SetM(get_value(Machine, xn, ai), GetValue(xn, ai))

DoGetStructure ==
    \E f \in Functors, xi \in XRegs :
        /\ Within(get_structure(Machine, f, xi))
        /\ SetM(get_structure(Machine, f, xi), GetStructure(f, xi))

DoUnifyVariable ==
    \E xi \in XRegs :
        /\ Within(unify_variable(Machine, xi))
        /\ SetM(unify_variable(Machine, xi), UnifyVariable(xi))

DoUnifyValue ==
    \E xi \in XRegs :
        /\ Within(unify_value(Machine, xi))
        /\ SetM(unify_value(Machine, xi), UnifyValue(xi))

Next ==
    \/ DoPutStructure
    \/ DoSetVariable
    \/ DoSetValue
    \/ DoPutVariable
    \/ DoPutValue
    \/ DoGetVariable
    \/ DoGetValue
    \/ DoGetStructure
    \/ DoUnifyVariable
    \/ DoUnifyValue

Spec == Init /\ [][Next]_vars

(***************************************************************************)
(* Specification SpecEnv: the environment and control instructions, and    *)
(* the register moves with permanent (Y) registers, called one after the   *)
(* other on a fresh machine; code is loaded with push_instructions.        *)
(***************************************************************************)
MaxStack == 12
MaxFrame == 2
MaxCode == 2

Procedures == {Functor("q", 0), Functor("r", 0)}

YRegs == {Y(1), Y(2)}

FrameSizes == 0..MaxFrame

WithinEnv(m) ==
    /\ status = "ok"
    /\ steps < MaxSteps
    /\ Len(m.heap) <= MaxHeap
    /\ Len(m.stack) <= MaxStack

InitEnv == IsM(new) /\ steps = 0 /\ last = NoInstr /\ NoCaller

EnvLoad ==
    \E f \in Procedures :
        /\ status = "ok"
        /\ Len(code_area) < MaxCode
        /\ SetMachine(push_instructions(Machine, f, <<Proceed>>))
        /\ UNCHANGED <<steps, last, caller, allocs>>

EnvAllocate ==
    \E n \in FrameSizes :
        /\ WithinEnv(allocate(Machine, n))
        /\ SetM(allocate(Machine, n), Allocate(n))

EnvDeallocate ==
    /\ WithinEnv(deallocate(Machine))
    /\ SetM(deallocate(Machine), Deallocate)

EnvCall ==
    \E f \in Procedures :
        /\ WithinEnv(call(Machine, f))
        /\ SetM(call(Machine, f), Call(f))

EnvProceed ==
    /\ WithinEnv(proceed(Machine))
    /\ SetM(proceed(Machine), Proceed)

EnvPutVariable ==
    \E xn \in YRegs, ai \in XRegs :
        /\ WithinEnv(put_variable(Machine, xn, ai))
        /\ SetM(put_variable(Machine, xn, ai), PutVariable(xn, ai))

EnvGetVariable ==
    \E xn \in YRegs, ai \in XRegs :
        /\ WithinEnv(get_variable(Machine, xn, ai))
        /\ SetM(get_variable(Machine, xn, ai), GetVariable(xn, ai))

EnvPutValue ==
    \E xn \in YRegs, ai \in XRegs :
        /\ WithinEnv(put_value(Machine, xn, ai))
        /\ SetM(put_value(Machine, xn, ai), PutValue(xn, ai))

NextEnv ==
    \/ EnvLoad
    \/ EnvAllocate
    \/ EnvDeallocate
    \/ EnvCall
    \/ EnvProceed
    \/ EnvPutVariable
    \/ EnvGetVariable
    \/ EnvPutValue

SpecEnv == InitEnv /\ [][NextEnv]_vars

(***************************************************************************)
(* Specification SpecRun: the callers of the executor.  A scenario is the  *)
(* sequence of calls its caller makes on a fresh machine: run_query on a   *)
(* query and a fact, or the calls of the rule test.  push_instructions is  *)
(* one step, every iteration of the loop of execute_instructions is one    *)
(* step, and the loop that fills the map a call of query or program        *)
(* returns is one step.                                                    *)
(***************************************************************************)
PushOp(f, code) == [op |-> "push", f |-> f, code |-> code, m |-> <<>>]

ExecOp(f) == [op |-> "exec", f |-> f, code |-> <<>>, m |-> <<>>]

OutputOp(which, m) == [op |-> which, f |-> NoFunctor, code |-> <<>>, m |-> m]

\* the calls query makes for the parsed term
query(term) ==
    LET c == compile_query(term, <<>>, {})
    IN  <<PushOp(FunctorOf(term), c.ins), ExecOp(FunctorOf(term)), OutputOp("query", c.m)>>

\* the calls program makes for the parsed term
program(term) ==
    LET c == compile_fact(term, <<>>, {})
    IN  <<PushOp(FunctorOf(term), c.ins), ExecOp(FunctorOf(term)), OutputOp("program", c.m)>>

run_query(q, t) == query(q) \o program(t)

Fact1 == Compound("q", <<Atom("a"), Atom("b")>>)

Fact2 == Compound("r", <<Atom("b"), Atom("c")>>)

rule_instructions ==
    <<Allocate(2), GetVariable(X(3), X(1)), GetVariable(Y(1), X(2)),
      PutValue(X(3), X(1)), PutVariable(Y(2), X(2)), Call(Functor("q", 2)),
      PutValue(Y(2), X(1)), PutValue(Y(1), X(2)), Call(Functor("r", 2)), Deallocate>>

RuleQuery == Compound("p", <<Var("U"), Var("V")>>)

\* the rule and the two facts loaded, then the query
rule_loaded ==
    LET c1 == compile_fact(Fact1, <<>>, {})
        c2 == compile_fact(Fact2, c1.m, c1.seen)
    IN  <<PushOp(Functor("p", 2), rule_instructions),
          PushOp(Functor("q", 2), c1.ins),
          PushOp(Functor("r", 2), c2.ins)>> \o query(RuleQuery)

\* the whole test: the three procedures are executed after the query
rule_test ==
    rule_loaded \o <<ExecOp(Functor("p", 2)), ExecOp(Functor("q", 2)), ExecOp(Functor("r", 2))>>

\* a list of instructions without Call or Proceed, pushed last and executed: the
\* loop of execute_instructions leaves by its test a < instructions.len()
unterminated ==
    <<PushOp(Functor("t", 0), <<PutStructure(Functor("a", 0), X(1)), SetVariable(X(2))>>),
      ExecOp(Functor("t", 0))>>

Atoms == {Atom("a"), Atom("b"), Atom("c")}

GroundTerms ==
    Atoms \cup {Compound("f", <<t>>) : t \in Atoms \cup {Compound("f", <<Atom("a")>>)}}
          \cup {Compound("h", <<t, u>>) : t \in Atoms, u \in Atoms}

QueryArgs ==
    {Atom("a"), Var("U"), Var("V"), Compound("f", <<Var("U")>>),
     Compound("h", <<Var("U"), Var("V")>>)}

FactArgs ==
    {Atom("a"), Atom("b"), Var("Y"), Compound("f", <<Var("Y")>>),
     Compound("h", <<Var("Y"), Var("Y")>>)}

Scenario(kind, q, t) == [kind |-> kind, q |-> q, t |-> t]

Scenarios ==
    {Scenario("ground", Compound("p", <<Var("V1")>>), Compound("p", <<t>>)) : t \in GroundTerms}
    \cup {Scenario("ground", Compound("p", <<Var("V1"), Var("V2")>>), Compound("p", <<t, u>>)) :
             t \in GroundTerms, u \in GroundTerms}
    \cup {Scenario("pair", Compound("p", <<q1>>), Compound("p", <<t1>>)) :
             q1 \in QueryArgs, t1 \in FactArgs}
    \cup {Scenario("pair", Compound("p", <<q1, q2>>), Compound("p", <<t1, t2>>)) :
             q1 \in QueryArgs, q2 \in QueryArgs, t1 \in FactArgs, t2 \in FactArgs}
    \cup {Scenario("pair", Compound("p", <<t>>), Compound("p", <<Var("Y")>>)) : t \in GroundTerms}
    \cup {Scenario("pair", Compound("p", <<Compound("h", <<Var("U"), Compound("f", <<Var("V")>>)>>),
                                            Compound("h", <<Var("U"), Compound("g", <<Var("V")>>)>>)>>),
                          Compound("p", <<Var("Y"), Var("Y")>>))}
    \cup {Scenario("pair", TermFig210, TermFig29), Scenario("pair", TermFig29, TermFig210),
          Scenario("rule_loaded", RuleQuery, RuleQuery), Scenario("rule_test", RuleQuery, RuleQuery),
          Scenario("unterminated", Atom("t"), Atom("t"))}

ScriptOf(sc) ==
    CASE sc.kind = "rule_loaded" -> rule_loaded
      [] sc.kind = "rule_test" -> rule_test
      [] sc.kind = "unterminated" -> unterminated
      [] OTHER -> run_query(sc.q, sc.t)

InitRun ==
    /\ IsM(new)
    /\ steps = 0
    /\ last = NoInstr
    /\ scenario \in Scenarios
    /\ script = ScriptOf(scenario)
    /\ pc = "idle"
    /\ run_a = 0
    /\ query_map = {}
    /\ program_map = {}
    /\ allocs = <<>>

\* every map the loop "for (term, x) in &map { output.insert(register x, term) }" can
\* leave: a cell that several terms share keeps the term the iteration meets last
Outputs(m, map) ==
    LET cells == {get_register(m, map[t]) : t \in DOMAIN map}
        RECURSIVE Choices(_)
        Choices(cs) ==
            IF cs = {} THEN {{}}
            ELSE LET c == CHOOSE c \in cs : TRUE
                 IN  {{<<c, t>>} \cup rest :
                         t \in {t \in DOMAIN map : get_register(m, map[t]) = c},
                         rest \in Choices(cs \ {c})}
    IN  Choices(cells)

RunPush ==
    /\ status = "ok" /\ pc = "idle" /\ script # <<>> /\ Head(script).op = "push"
    /\ SetMachine(push_instructions(Machine, Head(script).f, Head(script).code))
    /\ script' = Tail(script)
    /\ UNCHANGED <<steps, last, pc, run_a, scenario, query_map, program_map, allocs>>

\* let mut a = self.get_code_address(fact), and the first test of the loop
RunStart ==
    /\ status = "ok" /\ pc = "idle" /\ script # <<>> /\ Head(script).op = "exec"
    /\ IF ~HasCodeAddress(Machine, Head(script).f)
       THEN /\ SetMachine(Panic(Machine))
            /\ UNCHANGED <<pc, run_a, script>>
       ELSE /\ run_a' = get_code_address(Machine, Head(script).f)
            /\ IF run_a' < Len(code_area)
               THEN pc' = "run" /\ UNCHANGED script
               ELSE pc' = "idle" /\ script' = Tail(script)
            /\ SetMachine(Machine)
    /\ UNCHANGED <<steps, last, scenario, query_map, program_map, allocs>>

\* an iteration that, after a Call, goes on with the instruction P points at
RunInstr_following_p ==
    /\ status = "ok" /\ pc = "run"
    /\ LET instruction == code_area[run_a + 1]
           m == execute(Machine, instruction)
       IN  /\ SetMachine(m)
           /\ steps' = steps + 1
           /\ last' = instruction
           /\ allocs' = Recorded(instruction)
           /\ IF m.status # "ok"
              THEN UNCHANGED <<pc, run_a, script>>
              ELSE IF instruction.op = "Proceed"
                   THEN pc' = "idle" /\ script' = Tail(script) /\ UNCHANGED run_a
                   ELSE /\ run_a' = IF instruction.op = "Call" THEN m.p ELSE run_a + 1
                        /\ IF run_a' < Len(code_area)
                           THEN UNCHANGED <<pc, script>>
                           ELSE pc' = "idle" /\ script' = Tail(script)
    /\ UNCHANGED <<scenario, query_map, program_map>>

\* one iteration of the loop: instructions[a] is executed; Proceed and Call break,
\* any other instruction is followed by a += 1 and the test of the loop
RunInstr ==
    /\ status = "ok" /\ pc = "run"
    /\ LET instruction == code_area[run_a + 1]
           m == execute(Machine, instruction)
       IN  /\ SetMachine(m)
           /\ steps' = steps + 1
           /\ last' = instruction
           /\ allocs' = Recorded(instruction)
           /\ IF m.status # "ok"
              THEN UNCHANGED <<pc, run_a, script>>
              ELSE IF instruction.op \in {"Proceed", "Call"}
                   THEN pc' = "idle" /\ script' = Tail(script) /\ UNCHANGED run_a
                   ELSE /\ run_a' = run_a + 1
                        /\ IF run_a' < Len(code_area)
                           THEN UNCHANGED <<pc, script>>
                           ELSE pc' = "idle" /\ script' = Tail(script)
    /\ UNCHANGED <<scenario, query_map, program_map>>

\* the map that query or program returns
RunOutput ==
    /\ status = "ok" /\ pc = "idle" /\ script # <<>> /\ Head(script).op \in {"query", "program"}
    /\ LET map == Head(script).m
       IN  IF \E t \in DOMAIN map : ~IsCell(get_register(Machine, map[t]))
           THEN SetMachine(Panic(Machine)) /\ UNCHANGED <<script, query_map, program_map>>
           ELSE /\ SetMachine(Machine)
                /\ script' = Tail(script)
                /\ \E output \in Outputs(Machine, map) :
                      IF Head(script).op = "query"
                      THEN query_map' = output /\ UNCHANGED program_map
                      ELSE program_map' = output /\ UNCHANGED query_map
    /\ UNCHANGED <<steps, last, pc, run_a, scenario, allocs>>

NextRun ==
    \/ RunPush
    \/ RunStart
    \/ RunInstr
    \/ RunOutput

SpecRun == InitRun /\ [][NextRun]_vars

\* the caller has made all its calls
Returned == status = "ok" /\ pc = "idle" /\ script = <<>>

(***************************************************************************)
(* The bindings run_query renders.  display_map is the list of the maps    *)
(* extended into display_vec so far; inside one map a cell has one term.   *)
(***************************************************************************)
RECURSIVE TermText(_)
\* Display of a term: name, or name(arg, ..., arg)
TermText(t) ==
    LET RECURSIVE Joined(_)
        Joined(i) ==
            IF i > Len(t.args) THEN ""
            ELSE TermText(t.args[i]) \o (IF i # Len(t.args) THEN ", " ELSE "") \o Joined(i + 1)
    IN  IF t.args = <<>> THEN t.name ELSE t.name \o "(" \o Joined(1) \o ")"

\* the loop over display_map for an unbound Ref(r): the first variable stored under Ref(r)
DisplayName(r, display_map) ==
    LET Named(i) == {en \in display_map[i] : en[1] = Ref(r) /\ en[2].k = "Var"}
        hits == {i \in 1..Len(display_map) : Named(i) # {}}
    IN  IF hits = {} THEN ""
        ELSE LET first == CHOOSE i \in hits : \A j \in hits : i <= j
             IN  (CHOOSE en \in Named(first) : TRUE)[2].name

RECURSIVE resolveLoop(_, _, _, _)
\* a recursion deeper than the heap has cells never returns
resolveLoop(m, addr, display_map, n) ==
    LET d == deref(m, HeapAddr(addr))
        cell == get_store_cell(m, d)
        RECURSIVE Arguments(_)
        Arguments(i) ==
            IF i > cell.f.arity THEN ""
            ELSE resolveLoop(m, d.a + i, display_map, n - 1)
                     \o (IF i # cell.f.arity THEN ", " ELSE "") \o Arguments(i + 1)
    IN  IF d.st = "Panic" THEN "<panic>"
        ELSE IF d.st = "Loop" \/ n = 0 THEN "<hang>"
        ELSE IF cell.tag = "Func"
             THEN IF cell.f.arity = 0 THEN cell.f.name
                  ELSE cell.f.name \o "(" \o Arguments(1) \o ")"
        ELSE IF cell.tag = "Str" THEN resolveLoop(m, cell.a, display_map, n - 1)
        ELSE IF cell.a = d.a THEN DisplayName(cell.a, display_map)
        ELSE resolveLoop(m, cell.a, display_map, n - 1)

resolve_term(m, addr, display_map) == resolveLoop(m, addr, display_map, Len(m.heap) + 1)

\* the lines "term = buffer" of one loop of run_query over the list display_map
Rendered(m, display_map) ==
    {TermText(en[2]) \o " = " \o resolve_term(m, en[1].a, display_map) :
        en \in {en \in UNION {display_map[i] : i \in 1..Len(display_map)} :
                   /\ en[1].tag \in {"Ref", "Str"}
                   /\ en[2].k = "Var"
                   /\ resolve_term(m, en[1].a, display_map) # TermText(en[2])}}

query_bindings == Rendered(Machine, <<query_map>>)

program_bindings == Rendered(Machine, <<query_map, program_map>>) \ query_bindings

(***************************************************************************)
(* Specification SpecCompile: the compiler applied to a query, a fact or   *)
(* a rule, and the instructions pushed into the code area of a fresh       *)
(* machine, as the compilation tests and query, program do.  scenario.q    *)
(* is the term (the head of a rule), scenario.t the conjunction of the     *)
(* body goals of a rule; program_map keeps the TermMap the compiler leaves.*)
(***************************************************************************)
CompileArgs ==
    {Var("X"), Var("Y"), Atom("a"), Compound("f", <<Var("X")>>), Compound("f", <<Atom("a")>>),
     Compound("h", <<Var("X"), Var("Y")>>), Compound("h", <<Var("Y"), Compound("f", <<Var("Y")>>)>>),
     Compound("h", <<Compound("f", <<Var("X")>>), Compound("f", <<Var("X")>>)>>)}

CompileTerms ==
    {Compound("p", <<t1>>) : t1 \in CompileArgs}
    \cup {Compound("p", <<t1, t2>>) : t1 \in CompileArgs, t2 \in CompileArgs}
    \cup {TermFig29, TermFig210}

RuleHeads == {Compound("p", <<Var("X")>>), Compound("p", <<Var("X"), Var("Y")>>),
              Compound("p", <<Compound("f", <<Var("X")>>), Var("X")>>)}

RuleGoals == {Compound("q", <<Var("X")>>), Compound("q", <<Var("X"), Var("Z")>>),
              Compound("r", <<Var("Z"), Var("Y")>>), Compound("r", <<Var("W"), Var("W")>>),
              Compound("s", <<Compound("f", <<Var("Z")>>)>>)}

CompileJobs ==
    {Scenario(kind, term, Atom("none")) : kind \in {"query", "fact"}, term \in CompileTerms}
    \cup {Scenario("rule", head, Compound(",", body)) :
             head \in RuleHeads,
             body \in {<<b1>> : b1 \in RuleGoals}
                      \cup {<<b1, b2>> : b1 \in RuleGoals, b2 \in RuleGoals}
                      \cup {<<b1, b2, b3>> : b1 \in RuleGoals, b2 \in RuleGoals, b3 \in RuleGoals}}

\* the rule of a "rule" job
RuleOf(sc) == Rule(sc.q, sc.t.args)

InitCompile ==
    /\ IsM(new)
    /\ steps = 0
    /\ last = NoInstr
    /\ scenario \in CompileJobs
    /\ script = <<>>
    /\ pc = "idle"
    /\ run_a = 0
    /\ query_map = {}
    /\ program_map = {}
    /\ allocs = <<>>

\* the instructions of c are pushed under functor and the TermMap of c is kept
Compiled(functor, c) ==
    /\ SetMachine(push_instructions(Machine, functor, c.ins))
    /\ program_map' = {<<term, c.m[term]>> : term \in DOMAIN c.m}
    /\ pc' = "compiled"
    /\ UNCHANGED <<steps, last, run_a, script, scenario, query_map, allocs>>

CompileQuery ==
    /\ pc = "idle" /\ scenario.kind = "query"
    /\ Compiled(FunctorOf(scenario.q), compile_query(scenario.q, <<>>, {}))

CompileFact ==
    /\ pc = "idle" /\ scenario.kind = "fact"
    /\ Compiled(FunctorOf(scenario.q), compile_fact(scenario.q, <<>>, {}))

CompileRule ==
    /\ pc = "idle" /\ scenario.kind = "rule"
    /\ Compiled(FunctorOf(scenario.q), compile_rule(RuleOf(scenario), <<>>, {}))

NextCompile == CompileQuery \/ CompileFact \/ CompileRule

SpecCompile == InitCompile /\ [][NextCompile]_vars

(***************************************************************************)
(* The claims.                                                             *)
(***************************************************************************)

\* C1: after any sequence of the heap instructions on a fresh machine, every
\* Str(a) cell of the heap points at a Func cell: heap[a] is a Func.
C1_StrPointsToFunc ==
    status = "ok" =>
        \A i \in 1..Len(heap) : heap[i].tag = "Str" => HeapAt(Machine, heap[i].a).tag = "Func"

RECURSIVE FunctorClash(_, _)
\* some pair of corresponding subterms of the two terms has different functors
FunctorClash(t1, t2) ==
    /\ t1.k # "Var"
    /\ t2.k # "Var"
    /\ \/ FunctorOf(t1) # FunctorOf(t2)
       \/ \E i \in 1..Len(t1.args) : FunctorClash(t1.args[i], t2.args[i])

\* the scenario of the query and the fact of exercise 2.7
Exercise27 == Scenario("pair", TermFig210, TermFig29)

\* C2: when some pair of corresponding subterms of the query and the fact has
\* different functors, fail is true once the query code and then the fact code
\* have been executed.
C2_ClashSetsFail ==
    (scenario.kind \in {"ground", "pair"} /\ Returned /\ FunctorClash(scenario.q, scenario.t))
        => fail

\* C3: once fail is set during a run, the executor executes no further
\* instruction of that run.
C3_StopsOnFail ==
    [][(pc = "run" /\ status = "ok" /\ fail) => steps' = steps]_vars

\* C4: for a ground fact p(t1, ..., tn) and the query p(V1, ..., Vn) over distinct
\* variables, the run of the query code and then the fact code ends with fail false
\* and every Vi is rendered as bound to ti.
C4_GroundFactBindsQuery ==
    (scenario.kind = "ground" /\ Returned)
        => /\ fail = FALSE
           /\ \A i \in 1..Len(scenario.q.args) :
                 (TermText(scenario.q.args[i]) \o " = " \o TermText(scenario.t.args[i]))
                     \in query_bindings

\* C5: the query p(f(X), h(Y, f(a)), Y) against the fact p(Z, h(Z, W), f(W)) runs to
\* its end without a panic, with fail false and the bindings W = f(a), X = f(a),
\* Y = f(f(a)), Z = f(f(a)).
C5_Exercise27Bindings ==
    scenario = Exercise27
        => /\ status = "ok"
           /\ Returned => /\ fail = FALSE
                          /\ query_bindings \cup program_bindings
                                = {"W = f(a)", "X = f(a)", "Y = f(f(a))", "Z = f(f(a))"}

\* C6: with the rule p(X, Y) :- q(X, Z), r(Z, Y) and the facts q(a, b) and r(b, c)
\* loaded, the query p(U, V) ends with fail false, U bound to a and V bound to c.
C6_RuleQueryBinds ==
    (scenario.kind \in {"rule_loaded", "rule_test"} /\ Returned)
        => /\ fail = FALSE
           /\ {"U = a", "V = c"} \subseteq query_bindings

\* C7: after a Call(f) the run goes on, and the next instruction it executes is the
\* one at the entry address of f.
C7_CallContinuesAtEntry ==
    [][(steps' = steps + 1 /\ last'.op = "Call" /\ status' = "ok")
          => /\ pc' = "run"
             /\ run_a' = get_code_address(Machine, last'.f)]_vars

\* C8: an instruction other than Call and Proceed leaves P one greater than
\* it was before the instruction.
C8_PAdvancesByOne ==
    [][(steps' = steps + 1 /\ status' = "ok" /\ last'.op \notin {"Call", "Proceed"})
          => p' = p + 1]_vars

\* C9: after Allocate(n), writing Y(i) for 1 <= i <= n succeeds and stores the
\* cell in the frame, where a read of Y(i) finds it.
C9_WriteYAfterAllocate ==
    [][(/\ steps' = steps + 1
        /\ last.op = "Allocate"
        /\ last'.op \in {"PutVariable", "GetVariable"}
        /\ last'.r1.rk = "Y"
        /\ last'.r1.i >= 1
        /\ last'.r1.i <= last.n)
          => /\ status' = "ok"
             /\ e' = e
             /\ IsCell(get_register(Machine', last'.r1))]_vars

\* C10: the frame of Allocate(n) holds the previous E at stack[E], the saved
\* CP at stack[E+1] and n at stack[E+2].
C10_FrameLayout ==
    [][(steps' = steps + 1 /\ last'.op = "Allocate" /\ status' = "ok")
          => /\ FrameAt(stack', e') = FrameCode(e)
             /\ FrameAt(stack', e' + 1) = FrameCode(cp)
             /\ FrameAt(stack', e' + 2) = FrameCode(last'.n)]_vars

\* C11: a Deallocate that matches an Allocate restores E to the value it had just
\* before that Allocate and sets P to the CP that was current at that Allocate,
\* whatever frame sizes are used and whatever was executed in between.
C11_DeallocateRestores ==
    [][(steps' = steps + 1 /\ last'.op = "Deallocate" /\ status' = "ok" /\ allocs # <<>>)
          => /\ e' = allocs[Len(allocs)].e
             /\ p' = allocs[Len(allocs)].cp]_vars

\* the Deallocate of an inner frame has been executed after a Call changed CP
C11_Witness ==
    /\ status = "ok"
    /\ last.op = "Deallocate"
    /\ allocs # <<>>
    /\ e > 0
    /\ cp # p

\* C12: deref terminates on every heap address and on every set register, in every
\* state the instructions can reach from a fresh machine.
C12_DerefTerminates ==
    /\ \A a \in 0..(Len(heap) - 1) : deref(Machine, HeapAddr(a)).st # "Loop"
    /\ \A i \in 1..Len(x) : IsCell(x[i]) => deref(Machine, Register(X(i))).st # "Loop"

\* some heap cell is a bound Ref, and a register holds a Ref to it: deref has hops to make
C12_Witness ==
    /\ status = "ok"
    /\ \E a \in 0..(Len(heap) - 1), i \in 1..Len(x) :
          /\ heap[a + 1].tag = "Ref"
          /\ heap[a + 1].a # a
          /\ x[i] = Ref(a)
          /\ a # i

\* C13: for every heap address a, deref(HeapAddr(a)) is the first heap address on
\* the Ref chain from a whose cell is an unbound Ref, a Str or a Func, and it is a
\* itself when the cell at a is already such a cell.
C13_DerefFollowsChain ==
    LET Stops(i) == heap[i + 1].tag # "Ref" \/ heap[i + 1].a = i
        RECURSIVE Hop(_, _)
        Hop(i, j) == IF j = 0 \/ i >= Len(heap) THEN i ELSE Hop(heap[i + 1].a, j - 1)
    IN  \A a \in 0..(Len(heap) - 1) :
            LET d == deref(Machine, HeapAddr(a))
            IN  /\ d.st = "Heap"
                /\ d.a < Len(heap)
                /\ Stops(d.a)
                /\ Stops(a) => d = HeapAddr(a)
                /\ \E k \in 0..Len(heap) :
                      /\ \A j \in 0..(k - 1) : Hop(a, j) < Len(heap) /\ ~Stops(Hop(a, j))
                      /\ Hop(a, k) = d.a

\* a heap address whose Ref chain has two hops
C13_Witness ==
    /\ status = "ok"
    /\ \E a \in 0..(Len(heap) - 1) :
          /\ heap[a + 1].tag = "Ref"
          /\ heap[a + 1].a # a
          /\ heap[heap[a + 1].a + 1].tag = "Ref"
          /\ heap[heap[a + 1].a + 1].a # heap[a + 1].a

\* C14: for every X register that holds a Ref(t), deref of the register is a heap
\* address and equals deref(HeapAddr(t)).
C14_RegisterRefStepsIntoHeap ==
    \A i \in 1..Len(x) :
        (IsCell(x[i]) /\ x[i].tag = "Ref")
            => /\ deref(Machine, Register(X(i))).st = "Heap"
               /\ deref(Machine, Register(X(i))) = deref(Machine, HeapAddr(x[i].a))

\* C15: unification is symmetric: from any reachable state, unify(A, B) and
\* unify(B, A) end alike, with the same heap and the same fail.
C15_UnifySymmetric ==
    LET Stores == {HeapAddr(a) : a \in 0..(Len(heap) - 1)}
                      \cup {Register(X(i)) : i \in {j \in 1..Len(x) : IsCell(x[j])}}
    IN  status = "ok" =>
            \A A \in Stores, B \in Stores :
                LET m1 == unify(Machine, A, B)
                    m2 == unify(Machine, B, A)
                IN  /\ m1.status = m2.status
                    /\ m1.status = "ok" => (m1.heap = m2.heap /\ m1.fail = m2.fail)

\* a unification has just been executed, and the state has two structures whose
\* unification binds a variable inside them
C15_Witness ==
    LET Stores == {HeapAddr(a) : a \in 0..(Len(heap) - 1)}
                      \cup {Register(X(i)) : i \in {j \in 1..Len(x) : IsCell(x[j])}}
    IN  /\ status = "ok"
        /\ last.op \in {"GetValue", "UnifyValue"}
        /\ \E A \in Stores, B \in Stores :
              /\ get_store_cell(Machine, A).tag = "Str"
              /\ get_store_cell(Machine, B).tag = "Str"
              /\ unify(Machine, A, B).status = "ok"
              /\ ~unify(Machine, A, B).fail
              /\ unify(Machine, A, B).heap # heap

\* C16: GetValue and UnifyValue in read mode, that is unify and bind, leave the
\* length of the heap, H, the X registers and the stack as they were: they only
\* overwrite heap cells that exist.
C16_UnifyWritesOnlyHeapCells ==
    [][(/\ steps' = steps + 1
        /\ \/ last'.op = "GetValue"
           \/ last'.op = "UnifyValue" /\ mode = "Read")
          => /\ Len(heap') = Len(heap)
             /\ h' = h
             /\ x' = x
             /\ stack' = stack]_vars

\* GetValue has unified two registers that hold Refs to different cells
C16_Witness ==
    /\ status = "ok"
    /\ last = GetValue(X(1), X(2))
    /\ x[1].tag = "Ref"
    /\ x[2].tag = "Ref"
    /\ x[1] # x[2]
    /\ deref(Machine, HeapAddr(x[1].a)) = deref(Machine, HeapAddr(x[2].a))

\* C17: in the compiled rule head :- b1, ..., bk the variables that have a Y
\* register are exactly those that occur in more than one of the chunks
\* {head, b1}, b2, ..., bk, and the first instruction is Allocate(n) with n the
\* number of these variables.
C17_PermanentIffSeveralChunks ==
    (scenario.kind = "rule" /\ pc = "compiled")
        => LET rule == RuleOf(scenario)
               RECURSIVE VarsOf(_)
               VarsOf(term) ==
                   IF term.k = "Var" THEN {term}
                   ELSE UNION {VarsOf(term.args[i]) : i \in 1..Len(term.args)}
               Chunk(i) == IF i = 1 THEN VarsOf(rule.head) \cup VarsOf(rule.body[1])
                           ELSE VarsOf(rule.body[i])
               Chunks == 1..Len(rule.body)
               permanent == {v \in UNION {Chunk(i) : i \in Chunks} :
                                Cardinality({i \in Chunks : v \in Chunk(i)}) > 1}
           IN  /\ {en[1] : en \in {en \in program_map : en[2].rk = "Y"}} = permanent
               /\ code_area[1] = Allocate(Cardinality(permanent))

\* C18: the code of a compiled rule head :- b1, ..., bk is Allocate(n), n the
\* number of Y registers, then the fact code of the head without its Proceed,
\* then for every goal in order its put and set instructions ending with its
\* Call, then one Deallocate as the last instruction, and no Proceed; for
\* p(X, Y) :- q(X, Z), r(Z, Y) it is the code the test of exercise 3.1 expects.
C18_RuleCodeShape ==
    (scenario.kind = "rule" /\ pc = "compiled")
        => LET rule == RuleOf(scenario)
               k == Len(rule.body)
               n == Cardinality({en \in program_map : en[2].rk = "Y"})
               y_map == [term \in {en[1] : en \in {en \in program_map : en[2].rk = "Y"}} |->
                            (CHOOSE en \in program_map : en[1] = term)[2]]
               head == compile_fact(rule.head, y_map, {}).ins
               front == Len(head)
               Ops(from, to, ops) == \A i \in from..to : code_area[i].op \in ops
               Calls == {i \in 1..Len(code_area) : code_area[i].op = "Call"}
               \* the position of the j-th Call
               CallAt(j) == CHOOSE i \in Calls : Cardinality({c \in Calls : c <= i}) = j
           IN  /\ code_area[1] = Allocate(n)
               /\ head[front] = Proceed
               /\ SubSeq(code_area, 2, front) = SubSeq(head, 1, front - 1)
               /\ Ops(2, front, {"GetVariable", "GetValue", "GetStructure",
                                 "UnifyVariable", "UnifyValue"})
               /\ Ops(front + 1, Len(code_area) - 1,
                      {"PutVariable", "PutValue", "PutStructure", "SetVariable", "SetValue", "Call"})
               /\ Cardinality(Calls) = k
               /\ \A j \in 1..k : code_area[CallAt(j)] = Call(FunctorOf(rule.body[j]))
               /\ CallAt(k) = Len(code_area) - 1
               /\ code_area[Len(code_area)] = Deallocate
               /\ \A i \in 1..Len(code_area) - 1 : code_area[i] # Deallocate
               /\ \A i \in 1..Len(code_area) : code_area[i] # Proceed
               /\ rule = RuleExercise31 => code_area = rule_instructions

\* the rule of exercise 3.1 has been compiled
C18_Witness ==
    /\ scenario.kind = "rule" /\ pc = "compiled"
    /\ RuleOf(scenario) = RuleExercise31
    /\ Len(code_area) = 10

C20_FactCodeShape ==
    (scenario.kind = "fact" /\ pc = "compiled")
        => LET len == Len(code_area)
               Unifies(j) == code_area[j].op \in {"UnifyVariable", "UnifyValue"}
           IN  /\ code_area[len] = Proceed
               /\ \A j \in 1..(len - 1) :
                     /\ code_area[j].op \in {"GetVariable", "GetValue", "GetStructure",
                                             "UnifyVariable", "UnifyValue"}
                     /\ code_area[j].op = "GetStructure" =>
                           /\ \A d \in 1..code_area[j].f.arity : Unifies(j + d)
                           /\ ~Unifies(j + code_area[j].f.arity + 1)
               /\ scenario.q = TermFig210 =>
                     code_area = <<GetStructure(Functor("f", 1), X(1)), UnifyVariable(X(4)),
                                   GetStructure(Functor("h", 2), X(2)), UnifyVariable(X(5)),
                                   UnifyVariable(X(6)), GetValue(X(5), X(3)),
                                   GetStructure(Functor("f", 1), X(6)), UnifyVariable(X(7)),
                                   GetStructure(Functor("a", 0), X(7)), Proceed>>

\* C21: when a query has been executed, every top-level argument that is a
\* ground term is rendered by resolve_term, from the cell of its argument
\* register, as the text of the term.
C21_GroundArgumentRoundTrip ==
    (status = "ok" /\ pc = "idle" /\ script # <<>> /\ Head(script).op = "query")
        => LET RECURSIVE Ground(_)
               Ground(term) ==
                   /\ term.k # "Var"
                   /\ \A i \in 1..Len(term.args) : Ground(term.args[i])
           IN  \A i \in 1..Len(scenario.q.args) :
                   Ground(scenario.q.args[i])
                       => LET cell == get_register(Machine, X(i))
                          IN  /\ HasAddress(cell)
                              /\ resolve_term(Machine, cell.a, <<query_map>>)
                                    = TermText(scenario.q.args[i])

\* C22: a Call of a functor that has no entry in code_address panics: the
\* machine is not usable afterwards, fail keeps its value and so do CP and P.
C22_UnknownFunctorPanics ==
    [][(steps' = steps + 1 /\ last'.op = "Call" /\ ~HasCodeAddress(Machine, last'.f))
          => /\ status' = "panic"
             /\ fail' = fail
             /\ cp' = cp
             /\ p' = p]_vars

\* a Call of an unknown functor has panicked after P had moved
C22_Witness ==
    /\ status = "panic"
    /\ last.op = "Call"
    /\ ~HasCodeAddress(Machine, last.f)
    /\ p > 0
    /\ ~fail

\* C23: GetStructure(f, Xi), Xi holding a cell, does one of three things
\* according to the cell at deref(Xi): for an unbound Ref of address d it appends
\* Str(H+1) and Func(f), makes heap[d] equal to Str(H+1), adds 2 to H and sets
\* the mode to Write; for Str(a) with heap[a] = Func(f) it sets S to a+1 and the
\* mode to Read and changes nothing else; otherwise it sets fail.
C23_GetStructureCases ==
    [][LET f == last'.f
           d == deref(Machine, Register(last'.r1))
           cell == get_store_cell(Machine, d)
           \* the address of the unbound Ref
           a == IF d.st = "Heap" THEN d.a ELSE cell.a
       IN  (/\ steps' = steps + 1
            /\ last'.op = "GetStructure"
            /\ IsStore(d))
               => IF cell.tag = "Ref"
                  THEN /\ status' = "ok"
                       /\ a < Len(heap)
                       /\ heap' = [heap \o <<Str(h + 1), Func(f)>> EXCEPT ![a + 1] = Str(h + 1)]
                       /\ h' = h + 2
                       /\ mode' = "Write"
                       /\ UNCHANGED <<x, s, fail, pdl, stack, p, cp, e>>
                  ELSE IF cell.tag = "Str" /\ HeapAt(Machine, cell.a) = Func(f)
                  THEN /\ status' = "ok"
                       /\ s' = cell.a + 1
                       /\ mode' = "Read"
                       /\ UNCHANGED <<heap, h, x, fail, pdl, stack, p, cp, e>>
                  ELSE /\ status' = "ok"
                       /\ fail']_vars

\* C24: when the cell at deref(Xi) is a Str whose functor is not f, or a Func
\* cell, GetStructure(f, Xi) sets fail and leaves the heap, H, S, the mode, the
\* registers and the stack as they are.
C24_GetStructureFailureLeavesState ==
    [][LET d == deref(Machine, Register(last'.r1))
           cell == get_store_cell(Machine, d)
       IN  (/\ steps' = steps + 1
            /\ last'.op = "GetStructure"
            /\ IsStore(d)
            /\ \/ cell.tag = "Func"
               \/ /\ cell.tag = "Str"
                  /\ HeapAt(Machine, cell.a).tag = "Func"
                  /\ HeapAt(Machine, cell.a).f # last'.f)
               => /\ status' = "ok"
                  /\ fail'
                  /\ UNCHANGED <<heap, h, s, mode, x, stack, pdl>>]_vars

\* a GetStructure has just failed on a structure with another functor
C24_Witness ==
    LET cell == get_store_cell(Machine, deref(Machine, Register(last.r1)))
    IN  /\ status = "ok"
        /\ last.op = "GetStructure"
        /\ fail
        /\ cell.tag = "Str"
        /\ HeapAt(Machine, cell.a).tag = "Func"
        /\ HeapAt(Machine, cell.a).f # last.f

\* C25: bind on two distinct dereferenced addresses whose cells are Ref or Str
\* cells: when both are unbound Refs of the heap, the cell at the higher address
\* becomes Ref(lower address); when one of them is a Ref, that Ref cell becomes a
\* copy of the other cell; no other heap cell changes and the PDL is untouched.
C25_BindOverwritesTheRef ==
    status = "ok" =>
        LET Stores == {HeapAddr(a) : a \in 0..(Len(heap) - 1)}
                         \cup {Register(X(i)) : i \in {i \in 1..Len(x) : IsCell(x[i])}}
            \* the heap address of the Ref cell that address d with cell c denotes
            Target(d, c) == IF d.st = "Heap" THEN d.a ELSE c.a
        IN  \A a1 \in Stores, a2 \in Stores :
                LET d1 == deref(Machine, a1)
                    d2 == deref(Machine, a2)
                    c1 == get_store_cell(Machine, d1)
                    c2 == get_store_cell(Machine, d2)
                    m == bind(Machine, d1, d2)
                    high == IF d1.a > d2.a THEN d1.a ELSE d2.a
                    low == IF d1.a > d2.a THEN d2.a ELSE d1.a
                    t == IF is_ref(c1) THEN Target(d1, c1) ELSE Target(d2, c2)
                    other == IF is_ref(c1) THEN c2 ELSE c1
                IN  (/\ IsStore(d1) /\ IsStore(d2) /\ d1 # d2
                     /\ HasAddress(c1) /\ HasAddress(c2)
                     /\ is_ref(c1) \/ is_ref(c2))
                        => /\ m.status = "ok"
                           /\ m.pdl = pdl
                           /\ (is_ref(c1) /\ is_ref(c2) /\ d1.st = "Heap" /\ d2.st = "Heap")
                                 => m.heap = [heap EXCEPT ![high + 1] = Ref(low)]
                           /\ ~(is_ref(c1) /\ is_ref(c2))
                                 => /\ HeapAt(Machine, t) = Ref(t)
                                    /\ m.heap = [heap EXCEPT ![t + 1] = other]

\* C26: UnifyVariable(Xi) in read mode copies heap[S] into Xi and leaves the heap
\* and H alone; in write mode it appends Ref(H) to the heap, stores Ref(H) in Xi
\* and adds 1 to H; in both modes S grows by 1 and no other register changes.
C26_UnifyVariableModes ==
    [][LET i == last'.r1.i
           OtherRegisters == \A j \in 1..Len(x) : j # i => x'[j] = x[j]
       IN  (steps' = steps + 1 /\ last'.op = "UnifyVariable")
               => /\ (mode = "Read" /\ s < Len(heap))
                        => /\ status' = "ok"
                           /\ x'[i] = heap[s + 1]
                           /\ OtherRegisters
                           /\ s' = s + 1
                           /\ UNCHANGED <<heap, h, mode, fail, pdl>>
                  /\ mode = "Write"
                        => /\ status' = "ok"
                           /\ heap' = Append(heap, Ref(h))
                           /\ x'[i] = Ref(h)
                           /\ OtherRegisters
                           /\ h' = h + 1
                           /\ s' = s + 1
                           /\ UNCHANGED <<mode, fail, pdl>>]_vars

C26_Witness ==
    /\ status = "ok" /\ last.op = "UnifyVariable" /\ mode = "Read"
    /\ s >= 1 /\ s <= Len(heap) /\ h = Len(heap)
    /\ x[last.r1.i] = heap[s]
    /\ heap[s].tag = "Func"

\* C27: the heap-building instructions only append: PutStructure(f, Xi) appends
\* Str(H+1), Func(f) and sets Xi to Str(H+1); SetVariable(Xi) and
\* PutVariable(Xn, Ai) append Ref(H) and store it in the named registers;
\* SetValue(Xi) appends a copy of the cell of Xi and changes no register.  The
\* cells already on the heap and the registers not named keep their values.
C27_HeapBuildingAppends ==
    [][LET i == last'.r1.i
           j == last'.r2.i
           Others(named) == \A k \in 1..Len(x) : k \notin named => x'[k] = x[k]
       IN  (steps' = steps + 1)
               => /\ last'.op = "PutStructure"
                        => /\ status' = "ok"
                           /\ heap' = heap \o <<Str(h + 1), Func(last'.f)>>
                           /\ x'[i] = Str(h + 1) /\ Others({i})
                  /\ last'.op = "SetVariable"
                        => /\ status' = "ok"
                           /\ heap' = Append(heap, Ref(h))
                           /\ x'[i] = Ref(h) /\ Others({i})
                  /\ last'.op = "PutVariable"
                        => /\ status' = "ok"
                           /\ heap' = Append(heap, Ref(h))
                           /\ x'[i] = Ref(h) /\ x'[j] = Ref(h) /\ Others({i, j})
                  /\ (last'.op = "SetValue" /\ IsCell(get_x(Machine, i)))
                        => /\ status' = "ok"
                           /\ heap' = Append(heap, x[i])
                           /\ x' = x]_vars

C27_Witness ==
    /\ status = "ok" /\ last.op = "SetValue"
    /\ Len(heap) >= 3
    /\ heap[Len(heap)] = x[last.r1.i]
    /\ heap[Len(heap)].tag = "Str"

\* C28: after every instruction of a sequence run from a fresh machine H is the
\* length of the heap, and no instruction makes the heap shorter.
C28_HIsHeapLength ==
    [][steps' = steps + 1 => h' = Len(heap') /\ Len(heap') >= Len(heap)]_vars

C28_Witness ==
    /\ status = "ok" /\ last.op = "GetStructure" /\ mode = "Write"
    /\ h = Len(heap) /\ h >= 4

\* C29: Call(f) of a functor that has an entry sets CP to the old P plus 1 and P
\* to the entry address of f and changes nothing else; Proceed sets P to CP and
\* changes nothing else: heap, H, registers, stack, E, S, mode, fail, PDL, the
\* code and (for Proceed) CP keep their values.
C29_CallAndProceedFrame ==
    [][(steps' = steps + 1)
           => /\ (last'.op = "Call" /\ HasCodeAddress(Machine, last'.f))
                    => /\ status' = "ok"
                       /\ cp' = p + 1
                       /\ p' = get_code_address(Machine, last'.f)
                       /\ UNCHANGED <<heap, h, x, stack, e, s, mode, fail, pdl,
                                      code_area, code_address>>
              /\ last'.op = "Proceed"
                    => /\ status' = "ok"
                       /\ p' = cp
                       /\ UNCHANGED <<cp, heap, h, x, stack, e, s, mode, fail, pdl,
                                      code_area, code_address>>]_vars

C29_Witness ==
    /\ status = "ok" /\ last.op = "Proceed"
    /\ p = cp /\ cp >= 1
    /\ Len(stack) > 0

\* C30 as stated: when unify meets two structures with the same functor of arity
\* k >= 2, the pair of argument i leaves the PDL (is popped and processed) before
\* the pair of argument i+1: whenever the pair of argument i is still on the PDL
\* after n turns of the loop, so is the pair of argument i+1; after the turn that
\* follows the pushes the pair of argument 1 is gone.
C30_ArgumentsLeftToRight ==
    (status = "ok" /\ pc = "idle") =>
        \A a1 \in 0..(Len(heap) - 1), a2 \in 0..(Len(heap) - 1) :
            LET d1 == deref(Machine, HeapAddr(a1))
                d2 == deref(Machine, HeapAddr(a2))
                c1 == get_store_cell(Machine, d1)
                c2 == get_store_cell(Machine, d2)
                k == get_functor(Machine, c1).arity
                base == Len(pdl)
                start == [Machine EXCEPT !.pdl = @ \o <<HeapAddr(a1), HeapAddr(a2)>>, !.fail = FALSE]
                after(n) == unifyLoop(start, n).pdl
                \* the pair of argument j lies on the PDL where the loop pushed it
                Pending(n, j) ==
                    /\ Len(after(n)) >= base + 2 * j
                    /\ after(n)[base + 2 * j - 1] = HeapAddr(c2.a + j)
                    /\ after(n)[base + 2 * j] = HeapAddr(c1.a + j)
            IN  (/\ IsStore(d1) /\ IsStore(d2) /\ d1 # d2
                 /\ c1.tag = "Str" /\ c2.tag = "Str"
                 /\ HasFunctor(Machine, c1) /\ HasFunctor(Machine, c2)
                 /\ get_functor(Machine, c1) = get_functor(Machine, c2)
                 /\ k >= 2)
                    => /\ \A j \in 1..k : Pending(1, j)
                       /\ ~Pending(2, 1)
                       /\ \A n \in 1..MaxTurns, i \in 1..(k - 1) : Pending(n, i) => Pending(n, i + 1)

\* C30 as the code has it: the pairs are pushed in ascending order and popped from
\* the top, so the pair of argument i+1 leaves the PDL before the pair of argument
\* i: whenever the pair of argument i+1 is still on the PDL after n turns of the
\* loop, so is the pair of argument i; the turn that follows the pushes takes the
\* pair of the last argument and leaves the pairs of arguments 1..k-1.
C30_ArgumentsRightToLeft ==
    (status = "ok" /\ pc = "idle") =>
        \A a1 \in 0..(Len(heap) - 1), a2 \in 0..(Len(heap) - 1) :
            LET d1 == deref(Machine, HeapAddr(a1))
                d2 == deref(Machine, HeapAddr(a2))
                c1 == get_store_cell(Machine, d1)
                c2 == get_store_cell(Machine, d2)
                k == get_functor(Machine, c1).arity
                base == Len(pdl)
                start == [Machine EXCEPT !.pdl = @ \o <<HeapAddr(a1), HeapAddr(a2)>>, !.fail = FALSE]
                after(n) == unifyLoop(start, n).pdl
                \* the pair of argument j lies on the PDL where the loop pushed it
                Pending(n, j) ==
                    /\ Len(after(n)) >= base + 2 * j
                    /\ after(n)[base + 2 * j - 1] = HeapAddr(c2.a + j)
                    /\ after(n)[base + 2 * j] = HeapAddr(c1.a + j)
            IN  (/\ IsStore(d1) /\ IsStore(d2) /\ d1 # d2
                 /\ c1.tag = "Str" /\ c2.tag = "Str"
                 /\ HasFunctor(Machine, c1) /\ HasFunctor(Machine, c2)
                 /\ get_functor(Machine, c1) = get_functor(Machine, c2)
                 /\ k >= 2)
                    => /\ \A j \in 1..k : Pending(1, j)
                       /\ ~Pending(2, k)
                       /\ \A j \in 1..(k - 1) : Pending(2, j)
                       /\ \A n \in 1..MaxTurns, i \in 1..(k - 1) : Pending(n, i + 1) => Pending(n, i)

C30_Witness ==
    /\ status = "ok" /\ pc = "idle"
    /\ \E a1 \in 0..(Len(heap) - 1), a2 \in 0..(Len(heap) - 1) :
           LET c1 == HeapAt(Machine, a1)
               c2 == HeapAt(Machine, a2)
           IN  /\ c1.tag = "Str" /\ c2.tag = "Str" /\ c1.a # c2.a
               /\ HasFunctor(Machine, c1) /\ HasFunctor(Machine, c2)
               /\ get_functor(Machine, c1) = get_functor(Machine, c2)
               /\ get_functor(Machine, c1).arity >= 2
               /\ ~unify(Machine, HeapAddr(a1), HeapAddr(a2)).fail
               /\ unify(Machine, HeapAddr(a1), HeapAddr(a2)).heap # heap

\* C31: every call of unify made in a state reached by executing instructions
\* terminates: no instruction leaves the machine inside the loop of unify.  A
\* terminating unify over a heap of at most MaxHeap + 2 cells built from the
\* functors a/0 and f/1 takes fewer than UnifyFuel turns.
C31_UnifyTerminates == status # "hang"

\* C32: when unify(a1, a2) ends with fail false, a1 and a2 denote the same term
\* afterwards: dereferencing both gives the same store, or two structures with
\* the same functor whose arguments denote the same terms, position by position.
\* An unbound Ref is the same term only as itself.  Stated for the unify of
\* GetValue(Xn, Ai) and of UnifyValue(Xi) in read mode.
C32_UnifiedTermsAreEqual ==
    LET RECURSIVE Same(_, _, _)
        \* comparison to depth n; deeper than n the terms are cyclic
        Same(a1, a2, n) ==
            LET d1 == deref(Machine, a1)
                d2 == deref(Machine, a2)
                c1 == get_store_cell(Machine, d1)
                c2 == get_store_cell(Machine, d2)
            IN  IF n = 0 \/ a1 = a2 THEN TRUE
                ELSE IF ~(IsStore(d1) /\ IsStore(d2)) THEN FALSE
                ELSE IF d1 = d2 THEN TRUE
                ELSE IF c1.tag = "Str" /\ c2.tag = "Str"
                     THEN /\ HasFunctor(Machine, c1) /\ HasFunctor(Machine, c2)
                          /\ get_functor(Machine, c1) = get_functor(Machine, c2)
                          /\ \A i \in 1..get_functor(Machine, c1).arity :
                                Same(HeapAddr(c1.a + i), HeapAddr(c2.a + i), n - 1)
                     ELSE c1.tag = "Func" /\ c1 = c2
    IN  (status = "ok" /\ ~fail)
            => /\ last.op = "GetValue"
                    => Same(Register(last.r1), Register(last.r2), MaxHeap + 2)
               /\ (last.op = "UnifyValue" /\ mode = "Read" /\ s >= 1)
                    => Same(Register(last.r1), HeapAddr(s - 1), MaxHeap + 2)

\* C33: heap cells are write-once: an instruction changes the cell at a heap
\* address a only if the cell was the unbound Ref(a) before; a Func cell, a Str
\* cell or a bound Ref keeps its value for the rest of the sequence.
C33_HeapCellsWriteOnce ==
    [][\A a \in 0..(Len(heap) - 1) :
           (steps' = steps + 1 /\ a < Len(heap') /\ heap'[a + 1] # heap[a + 1])
               => heap[a + 1] = Ref(a)]_vars

\* C34: fail is monotone over an instruction sequence: once fail is true, no
\* later instruction of the sequence sets it back to false.
C34_FailIsMonotone == [][(steps' = steps + 1 /\ fail) => fail']_vars

\* C35: the PDL is empty after every instruction that completes, whether its
\* unification succeeded or failed, so that a later unify starts from a PDL that
\* holds only its own two addresses.
C35_PdlEmptyAfterInstruction == status = "ok" => pdl = <<>>

\* C36: Allocate never overwrites a slot of a live frame: when a Deallocate
\* returns to the frame that was current before the matching Allocate, the
\* previous-E slot, the saved-CP slot and every written Y slot of that frame hold
\* the values they held just before the Allocate, whatever the frame sizes.
C36_AllocateKeepsLiveFrame ==
    [][(steps' = steps + 1 /\ last'.op = "Deallocate" /\ status' = "ok" /\ allocs # <<>>)
          => LET before == allocs[Len(allocs)]
                 Kept(i) == FrameAt(stack', i) = FrameAt(before.stack, i)
             IN  /\ FrameAt(before.stack, before.e).fk = "Code" => Kept(before.e)
                 /\ FrameAt(before.stack, before.e + 1).fk = "Code" => Kept(before.e + 1)
                 /\ \A yi \in 1..MaxFrame :
                        FrameAt(before.stack, before.e + 3 + yi).fk = "Cell"
                            => Kept(before.e + 3 + yi)]_vars

\* C37: in every reachable heap a Ref cell stored at heap index a has a target t
\* with t <= a: bindings point from the younger cell to an older cell or to the
\* cell itself.
C37_RefsPointDownwards ==
    \A a \in 0..(Len(heap) - 1) : heap[a + 1].tag = "Ref" => heap[a + 1].a <= a

\* a unification has bound a Ref cell to an older Ref cell
C37_Witness ==
    /\ status = "ok" /\ last.op \in {"GetValue", "UnifyValue"}
    /\ \E a \in 0..(Len(heap) - 1) :
           /\ heap[a + 1].tag = "Ref"
           /\ heap[a + 1].a < a
           /\ heap[heap[a + 1].a + 1] = Ref(heap[a + 1].a)

\* C38: the register assignment of compile_query is injective: in the map from
\* terms to registers that it leaves for the extraction of the bindings, two
\* different variables or subterms of the query p(t1..tn) never have the same X
\* register, and every register that is not one of the argument registers
\* X1..Xn is numbered above n.
C38_QueryRegistersInjective ==
    (pc = "compiled" /\ scenario.kind = "query")
        => LET n == Len(structuralize(scenario.q).args)
               Arguments == {TermKey(structuralize(scenario.q).args[i]) : i \in 1..n}
           IN  /\ \A t1 \in program_map, t2 \in program_map : t1[2] = t2[2] => t1[1] = t2[1]
               /\ \A t \in program_map : t[1] \notin Arguments => t[2].i > n

\* C39: a run of execute_instructions(f) is one pass over the code area: it starts
\* at the entry of f, every instruction it executes is the one at its address a,
\* a Call or a Proceed is the last instruction of the run, any other instruction
\* is followed by the instruction at a + 1, and the run stops when a reaches the
\* end of the code area; the code area does not change meanwhile.  The distance
\* Len(code_area) - a decreases with every instruction, so the run terminates
\* when its instructions do.
C39_ExecutionIsOnePass ==
    [][/\ (pc = "idle" /\ pc' = "run")
            => run_a' = get_code_address(Machine, Head(script).f)
       /\ (pc = "run" /\ steps' = steps + 1 /\ status' = "ok")
            => /\ run_a < Len(code_area)
               /\ last' = code_area[run_a + 1]
               /\ code_area' = code_area
               /\ IF last'.op \in {"Call", "Proceed"}
                  THEN pc' = "idle" /\ script' = Tail(script)
                  ELSE /\ run_a' = run_a + 1
                       /\ pc' = "run" <=> run_a' < Len(code_area)
                       /\ pc' = "idle" => script' = Tail(script)]_vars

\* a run has ended at a Call although the code of the called procedure follows
C39_Witness ==
    /\ status = "ok" /\ pc = "idle" /\ last.op = "Call"
    /\ HasCodeAddress(Machine, last.f)
    /\ run_a < get_code_address(Machine, last.f)
    /\ get_code_address(Machine, last.f) < Len(code_area)

====
